---- MODULE Spec2Model ----
(***************************************************************************)
(* The asynchronous pipelines of the social-media backend: the sentiment   *)
(* worker with its rating aggregator over the relational store, and the    *)
(* resize worker over the object store.                                    *)
(*                                                                         *)
(* Conventions.  A nullable column or value is a sequence: <<>> is None    *)
(* and <<v>> is the value v.  Scores and ratings are counted in hundredths *)
(* (100 is 1.0, 367 is 3.67).  The inputs keep every quotient the          *)
(* aggregator rounds away from an exact tie, where binary floating point   *)
(* and exact arithmetic could round differently.                           *)
(***************************************************************************)
EXTENDS Integers, Sequences, FiniteSets, TLC

VARIABLES
    posts,      \* the post table: posts[i] is the row with id i
    comments,   \* the comment table: comments[i] is the row with id i
    store,      \* the bucket: object key -> kind of bytes stored under it
    last,       \* the delivery (or direct call) that has just returned, or Idle
    workers,    \* competing sentiment workers: each one's place in its handler
    seen,       \* per post id, the aggregator's value over every comment
                \* state that has been committed so far
    queue,      \* the messages the broker holds for the workers, in the
                \* order it delivers them
    decisions,  \* the deliveries handled from the queue so far, in order
    tags,       \* the tag table: tags[i] is the name of the row with id i
    post_tags,  \* the post_tag_link table: pairs <<post id, tag id>>
    toe_ratings \* the toe_rating table: toe_ratings[i] is the row with id i

vars == <<posts, comments, store, last, workers, seen, queue, decisions,
          tags, post_tags, toe_ratings>>

\* What only the competing workers of SpecWorkers change.
conc == <<workers, seen>>

\* What only the consume loop of SpecLoop changes.
loop == <<queue, decisions>>

\* What only the calls of SpecCatalog change.
cat == <<tags, post_tags, toe_ratings>>

\* Rows and objects created in one run: posts + comments + uploaded images.
MaxRows == 3

\* ------------------------------------------------------------------ models.py

\* The columns of Post.  There is no rating column.
PostColumns == {"id", "image_path", "text", "user", "created_at"}

\* The columns of Comment.
CommentColumns ==
    {"id", "post_id", "user", "text", "created_at", "sentiment", "sentiment_score"}

\* Pydantic's attribute assignment on a model: a name that is no field of the
\* model raises ValueError, anything else is set.
SetAttr(columns, row, name, value) ==
    IF name \in columns
    THEN [raised |-> FALSE, row |-> [c \in DOMAIN row \cup {name} |->
                                        IF c = name THEN value ELSE row[c]]]
    ELSE [raised |-> TRUE, row |-> row]

\* What the store holds as post p's rating: <<>> when the row has none.
StoredRating(p) ==
    IF p \in DOMAIN posts /\ "rating" \in DOMAIN posts[p]
    THEN <<posts[p].rating>> ELSE <<>>

\* ---------------------------------------------------------------------- db.py

\* The post ids that callers of add_comment_db name.
PostIdsUsed == {1, 2}

ImagePaths == {<<"posts/", "a">>}

\* No delivery is being handled: the worker waits in start_consuming.  A
\* handled delivery records what the handler did: the decisions it sent on the
\* channel, the exception its except branch caught, whether the classifier was
\* called and what it returned, the comment row as it was loaded, the post
\* whose rating was recomputed and the value computed for it, the thumbnail
\* key returned and the store call whose exception resize_image caught itself.
\* A handled API request records the id or key it created and
\* the messages it published.
Idle ==
    [worker |-> "idle", body |-> [json |-> "none"], acks |-> 0, nacks |-> 0,
     requeue |-> FALSE, exc |-> "none", classified |-> FALSE, result |-> <<>>,
     found |-> FALSE, before |-> <<>>, recomputed |-> FALSE, post |-> <<>>,
     value |-> <<>>, thumb |-> <<>>, caught |-> "none", created |-> <<>>,
     published |-> <<>>]

RowsCreated ==
    Len(posts) + Len(comments)
        + Cardinality({k \in DOMAIN store : k[1] = "posts/"})

\* create_post_db: a new row with the next id; no rating is given to it.
CreatePost(path) ==
    /\ last = Idle
    /\ RowsCreated < MaxRows
    /\ posts' = Append(posts, [image_path |-> path, text |-> <<"C", "a", "t">>,
                                 user |-> <<"a", "n", "n">>])
    /\ UNCHANGED <<comments, store, last>>
    /\ UNCHANGED conc
    /\ UNCHANGED cat
    /\ UNCHANGED loop

\* add_comment_db: a new row with the next id and both sentiment columns
\* unset.  The post id is not looked up.
AddComment(p) ==
    /\ last = Idle
    /\ RowsCreated < MaxRows
    /\ comments' = Append(comments,
            [post_id |-> p, sentiment |-> <<>>, sentiment_score |-> <<>>])
    /\ UNCHANGED <<posts, store, last>>
    /\ UNCHANGED conc
    /\ UNCHANGED cat
    /\ UNCHANGED loop

\* ------------------------------------------------------------ queue.py, app.py

\* QueueService.publish: the message is handed to the broker for the queue.
Publish(d, queue_name, message) ==
    [d EXCEPT !.published = Append(@, [queue |-> queue_name, message |-> message])]

\* The comment texts API clients send.
ApiTexts == {"good", "bad"}

\* add_comment of the API: 404 when the post does not exist, otherwise the
\* row of add_comment_db is committed and returned as a DTO.  Nothing is
\* published.
ApiAddComment(p, text) ==
    /\ last = Idle
    /\ RowsCreated < MaxRows
    /\ LET d == [Idle EXCEPT !.worker = "add_comment",
                             !.body = [json |-> "object", text |-> text],
                             !.post = <<p>>]
       IN  IF p \notin DOMAIN posts
           THEN /\ last' = [d EXCEPT !.exc = "HTTP404"]
                /\ UNCHANGED comments
           ELSE /\ comments' = Append(comments,
                        [post_id |-> p, sentiment |-> <<>>, sentiment_score |-> <<>>])
                /\ last' = [d EXCEPT !.created = <<Len(comments) + 1>>]
    /\ UNCHANGED <<posts, store>>
    /\ UNCHANGED conc
    /\ UNCHANGED cat
    /\ UNCHANGED loop

\* ---------------------------------------------------------- sentiment_worker.py

Texts == {"good", "bad", "meh", "LOUD"}

\* The classifier, loaded once: a fixed function of the text.  The sample
\* holds each recognised label and the upper-case label of the worker's test
\* double, which SENTIMENT_MAP does not know.
Classify(text) ==
    CASE text = "good" -> [label |-> "positive", score |-> 100]
      [] text = "bad"  -> [label |-> "negative", score |-> 100]
      [] text = "meh"  -> [label |-> "neutral", score |-> 50]
      [] OTHER         -> [label |-> "POSITIVE", score |-> 99]

SENTIMENT_MAP == [negative |-> -1, neutral |-> 0, positive |-> 1]

\* An update that commits the label on its own before the score: a failure
\* in between leaves the label without a score.
UpdateCommentSentimentHalf(cs, comment_id, sentiment, score, fail) ==
    IF comment_id \notin DOMAIN cs
    THEN [raised |-> fail, post_id |-> <<>>, comments |-> cs]
    ELSE IF fail
    THEN [raised |-> TRUE, post_id |-> <<>>,
          comments |-> [cs EXCEPT ![comment_id].sentiment = <<sentiment>>]]
    ELSE [raised |-> FALSE,
          post_id |-> <<cs[comment_id].post_id>>,
          comments |-> [cs EXCEPT ![comment_id].sentiment = <<sentiment>>,
                                  ![comment_id].sentiment_score = <<score>>]]

\* A first classification that is never overwritten.
UpdateCommentSentimentOnce(cs, comment_id, sentiment, score, fail) ==
    IF fail THEN [raised |-> TRUE, post_id |-> <<>>, comments |-> cs]
    ELSE IF comment_id \notin DOMAIN cs
    THEN [raised |-> FALSE, post_id |-> <<>>, comments |-> cs]
    ELSE [raised |-> FALSE,
          post_id |-> <<cs[comment_id].post_id>>,
          comments |-> IF cs[comment_id].sentiment # <<>> THEN cs
                       ELSE [cs EXCEPT ![comment_id].sentiment = <<sentiment>>,
                                       ![comment_id].sentiment_score = <<score>>]]

\* update_comment_sentiment: None when no row has the id, otherwise both
\* columns are overwritten, committed, and the row's post id is returned.
\* fail: the store raises before anything is committed.
UpdateCommentSentiment(cs, comment_id, sentiment, score, fail) ==
    IF fail THEN [raised |-> TRUE, post_id |-> <<>>, comments |-> cs]
    ELSE IF comment_id \notin DOMAIN cs
    THEN [raised |-> FALSE, post_id |-> <<>>, comments |-> cs]
    ELSE [raised |-> FALSE,
          post_id |-> <<cs[comment_id].post_id>>,
          comments |-> [cs EXCEPT ![comment_id].sentiment = <<sentiment>>,
                                  ![comment_id].sentiment_score = <<score>>]]

\* The comprehension's filter: a recognised label and a score that is set.
Qualifies(c) ==
    /\ c.sentiment # <<>>
    /\ c.sentiment[1] \in DOMAIN SENTIMENT_MAP
    /\ c.sentiment_score # <<>>

\* values with no filter: a comment that does not qualify counts as 0.
ValuesUnfiltered(cs, post_id) ==
    LET mine == SelectSeq(cs, LAMBDA c : c.post_id = post_id)
    IN  [i \in DOMAIN mine |->
            IF Qualifies(mine[i])
            THEN SENTIMENT_MAP[mine[i].sentiment[1]] * mine[i].sentiment_score[1]
            ELSE 0]

\* values: one signed score per qualifying comment of the post.
Values(cs, post_id) ==
    LET mine == SelectSeq(cs, LAMBDA c : c.post_id = post_id)
        qual == SelectSeq(mine, Qualifies)
    IN  [i \in DOMAIN qual |->
            SENTIMENT_MAP[qual[i].sentiment[1]] * qual[i].sentiment_score[1]]

RECURSIVE Sum(_, _)
Sum(values, i) == IF i = 0 THEN 0 ELSE Sum(values, i - 1) + values[i]

\* round(x, 2) of the fraction n/d of hundredths, d > 0: to the nearest
\* hundredth, an exact tie to the even one.
Round2(n, d) ==
    LET q == n \div d
        r == n % d
    IN  IF 2 * r < d THEN q
        ELSE IF 2 * r > d THEN q + 1
        ELSE IF q % 2 = 0 THEN q ELSE q + 1

\* No signal read as the neutral midpoint.
RatingNeutralDefault(cs, post_id) ==
    LET values == Values(cs, post_id)
        len    == Len(values)
    IN  IF len = 0 THEN 300
        ELSE LET sum    == Sum(values, len)
                 num    == ((sum + 100 * len) * 4) \div 2 + 100 * len
                 capped == IF num > 500 * len THEN 500 * len ELSE num
                 floor  == IF capped < 100 * len THEN 100 * len ELSE capped
             IN  Round2(floor, len)

\* The rating computed from the post's comments, before it is stored:
\* 0.0 without comments or without qualifying ones, otherwise
\* round(max(1.0, min(5.0, ((avg + 1) / 2) * 4 + 1)), 2).
Rating(cs, post_id) ==
    LET values == Values(cs, post_id)
        len    == Len(values)
    IN  IF len = 0 THEN 0
        ELSE LET sum    == Sum(values, len)
                 \* avg = sum / len; ((avg + 1) / 2) * 4 + 1 over the divisor len
                 num    == ((sum + 100 * len) * 4) \div 2 + 100 * len
                 capped == IF num > 500 * len THEN 500 * len ELSE num
                 floor  == IF capped < 100 * len THEN 100 * len ELSE capped
             IN  Round2(floor, len)

\* recompute_post_rating assigning the value to a column the row has: the
\* post's text is overwritten.
RecomputePostRatingWritesText(ps, cs, post_id, fail) ==
    IF fail THEN [exc |-> "OperationalError:recompute", value |-> <<>>, posts |-> ps]
    ELSE IF post_id \notin DOMAIN ps
    THEN [exc |-> "none", value |-> <<>>, posts |-> ps]
    ELSE LET rating == Rating(cs, post_id)
             set    == SetAttr(PostColumns, ps[post_id], "text", <<"r">>)
         IN  [exc |-> "none", value |-> <<rating>>,
              posts |-> [ps EXCEPT ![post_id] = set.row]]

\* recompute_post_rating without the `if post:` guard: assigning to the None
\* that session.get returned raises AttributeError.
RecomputePostRatingUnguarded(ps, cs, post_id, fail) ==
    IF fail THEN [exc |-> "OperationalError:recompute", value |-> <<>>, posts |-> ps]
    ELSE IF post_id \notin DOMAIN ps
    THEN [exc |-> "AttributeError", value |-> <<>>, posts |-> ps]
    ELSE LET rating == Rating(cs, post_id)
             set    == SetAttr(PostColumns, ps[post_id], "rating", rating)
         IN  IF set.raised
             THEN [exc |-> "ValueError", value |-> <<rating>>, posts |-> ps]
             ELSE [exc |-> "none", value |-> <<rating>>,
                   posts |-> [ps EXCEPT ![post_id] = set.row]]

\* recompute_post_rating: reads the post's comments, computes the rating and,
\* when the post exists, assigns it to post.rating and commits.
\* fail: the store raises on the first read.
RecomputePostRating(ps, cs, post_id, fail) ==
    IF fail THEN [exc |-> "OperationalError:recompute", value |-> <<>>, posts |-> ps]
    ELSE IF post_id \notin DOMAIN ps
    THEN [exc |-> "none", value |-> <<>>, posts |-> ps]
    ELSE LET rating == Rating(cs, post_id)
             set    == SetAttr(PostColumns, ps[post_id], "rating", rating)
         IN  IF set.raised
             THEN [exc |-> "ValueError", value |-> <<rating>>, posts |-> ps]
             ELSE [exc |-> "none", value |-> <<rating>>,
                   posts |-> [ps EXCEPT ![post_id] = set.row]]

\* The channel's two decisions, counted on the delivery.
BasicAck(d) == [d EXCEPT !.acks = @ + 1]

\* basic_nack called without requeue=False: the broker's default requeues.
BasicNackDefault(d, requeue) == [d EXCEPT !.nacks = @ + 1, !.requeue = TRUE]

BasicNack(d, requeue) == [d EXCEPT !.nacks = @ + 1, !.requeue = requeue]

\* message.get(key) is falsy: the key is absent (None).
Missing(body, key) == key \notin DOMAIN body

SentimentFaults == {"none", "classifier", "update", "recompute"}

\* An except branch that only logs; the acknowledgment after it still runs.
SentimentFailedAcks(ps, cs, d, exc) ==
    [posts |-> ps, comments |-> cs, last |-> BasicAck([d EXCEPT !.exc = exc])]

\* The except branch of callback.
SentimentFailed(ps, cs, d, exc) ==
    [posts |-> ps, comments |-> cs,
     last |-> BasicNack([d EXCEPT !.exc = exc], FALSE)]

\* A malformed message sent back to the queue.
SentimentInvalidRequeued(ps, cs, d) ==
    [posts |-> ps, comments |-> cs, last |-> BasicNack(d, TRUE)]

\* The invalid-message branch of callback: warn, acknowledge, return.
SentimentInvalid(ps, cs, d) ==
    [posts |-> ps, comments |-> cs, last |-> BasicAck(d)]

\* A lookup that raises when no row has the id, as .one() would.
SentimentNotFoundRaises(ps, cs, d) ==
    [posts |-> ps, comments |-> cs,
     last |-> BasicNack([d EXCEPT !.exc = "NoResultFound"], FALSE)]

\* callback when update_comment_sentiment returned None: no recomputation,
\* the message is acknowledged.
SentimentNotFound(ps, cs, d) ==
    [posts |-> ps, comments |-> cs, last |-> BasicAck(d)]

\* callback: the whole handler for one delivery.
SentimentCallback(ps, cs, body, fault) ==
    LET d0 == [Idle EXCEPT !.worker = "sentiment", !.body = body] IN
    IF body.json = "invalid" THEN SentimentFailed(ps, cs, d0, "JSONDecodeError")
    ELSE IF body.json # "object" THEN SentimentFailed(ps, cs, d0, "AttributeError")
    ELSE IF Missing(body, "comment_id") \/ Missing(body, "text")
    THEN SentimentInvalid(ps, cs, d0)
    ELSE
    LET d1 == [d0 EXCEPT !.classified = TRUE] IN
    IF fault = "classifier" THEN SentimentFailed(ps, cs, d1, "ClassifierError")
    ELSE
    LET res == Classify(body.text)
        d2  == [d1 EXCEPT !.result = <<res>>]
        upd == UpdateCommentSentiment(cs, body.comment_id, res.label, res.score,
                                      fault = "update")
    IN
    IF upd.raised THEN SentimentFailed(ps, upd.comments, d2, "OperationalError:update")
    ELSE IF upd.post_id = <<>>
    THEN SentimentNotFound(ps, cs, d2)
    ELSE
    LET d3  == [d2 EXCEPT !.found = TRUE, !.before = <<cs[body.comment_id]>>,
                          !.recomputed = TRUE, !.post = upd.post_id]
        rec == RecomputePostRating(ps, upd.comments, upd.post_id[1],
                                   fault = "recompute")
        d4  == [d3 EXCEPT !.value = rec.value]
    IN
    IF rec.exc # "none" THEN SentimentFailed(rec.posts, upd.comments, d4, rec.exc)
    ELSE [posts |-> rec.posts, comments |-> upd.comments, last |-> BasicAck(d4)]

JobCids == 1..MaxRows

SentimentBodies ==
    {[json |-> "invalid"], [json |-> "array"], [json |-> "object"]}
    \cup {[json |-> "object", comment_id |-> c] : c \in JobCids}
    \cup {[json |-> "object", text |-> t] : t \in Texts}
    \cup {[json |-> "object", comment_id |-> c, text |-> t] :
            c \in JobCids, t \in Texts}

\* The broker hands the sentiment worker one message; the handler runs to its
\* return.
SentimentDelivery(body, fault) ==
    /\ last = Idle
    /\ LET r == SentimentCallback(posts, comments, body, fault)
       IN  /\ posts' = r.posts
           /\ comments' = r.comments
           /\ last' = r.last
    /\ UNCHANGED store
    /\ UNCHANGED conc
    /\ UNCHANGED cat
    /\ UNCHANGED loop

\* A direct call of recompute_post_rating(session, post_id).
RecomputeCall(p) ==
    /\ last = Idle
    /\ LET rec == RecomputePostRating(posts, comments, p, FALSE)
       IN  /\ posts' = rec.posts
           /\ last' = [Idle EXCEPT !.worker = "recompute", !.recomputed = TRUE,
                                   !.post = <<p>>, !.value = rec.value,
                                   !.exc = rec.exc]
    /\ UNCHANGED <<comments, store>>
    /\ UNCHANGED conc
    /\ UNCHANGED cat
    /\ UNCHANGED loop

\* -------------------------------------------------- minio_db.py, resize_worker.py

Names == {"a", "b"}

\* upload_image_to_minio with MinIO enabled: the bytes are put under a fresh
\* key "posts/<uuid><ext>".  Only the declared content type is looked at, so
\* the bytes may or may not decode as an image.
UploadImage(name, kind) ==
    /\ last = Idle
    /\ RowsCreated < MaxRows
    /\ <<"posts/", name>> \notin DOMAIN store
    /\ store' = (<<"posts/", name>> :> kind) @@ store
    /\ UNCHANGED <<posts, comments, last>>
    /\ UNCHANGED conc
    /\ UNCHANGED cat
    /\ UNCHANGED loop

\* upload_image of the API: 400 unless the declared content type is an image
\* type, 500 when the store refuses the object, otherwise the key the object
\* was put under is returned.  Nothing is published.
ApiUploadImage(name, kind, fail) ==
    /\ last = Idle
    /\ RowsCreated < MaxRows
    /\ <<"posts/", name>> \notin DOMAIN store
    /\ LET d == [Idle EXCEPT !.worker = "upload_image"]
       IN  IF kind = "text"
           THEN /\ last' = [d EXCEPT !.exc = "HTTP400"]
                /\ UNCHANGED store
           ELSE IF fail
           THEN /\ last' = [d EXCEPT !.exc = "HTTP500"]
                /\ UNCHANGED store
           ELSE /\ store' = (<<"posts/", name>> :> kind) @@ store
                /\ last' = [d EXCEPT !.created = <<<<"posts/", name>>>>]
    /\ UNCHANGED <<posts, comments>>
    /\ UNCHANGED conc
    /\ UNCHANGED cat
    /\ UNCHANGED loop

RECURSIVE FirstAt(_, _, _)
\* The first position from i on where the key holds the marker, 0 if none.
FirstAt(key, old, i) ==
    IF i > Len(key) THEN 0
    ELSE IF key[i] = old THEN i
    ELSE FirstAt(key, old, i + 1)

\* image_path.replace(old, new) without the count: every occurrence.
ReplaceAll(key, old, new) ==
    [i \in DOMAIN key |-> IF key[i] = old THEN new ELSE key[i]]

\* image_path.replace(old, new, 1): the first occurrence only.
ReplaceFirst(key, old, new) ==
    LET i == FirstAt(key, old, 1)
    IN  IF i = 0 THEN key ELSE [key EXCEPT ![i] = new]

\* The bytes that img.thumbnail(THUMBNAIL_SIZE) and img.save(quality=85,
\* optimize=True) make of an object: a thumbnail of an uploaded image, and
\* re-encoded bytes when the object read was itself such a thumbnail.
Thumbnail(object) == IF object = "image" THEN "thumb" ELSE "rethumb"

ResizeFaults == {"none", "get", "put"}

\* A download whose failure is not caught.
ResizeImageGetRaises(st, image_path, fault) ==
    IF fault = "get" \/ image_path \notin DOMAIN st
    THEN [exc |-> "S3Error", caught |-> "none", thumb |-> <<>>, store |-> st]
    ELSE IF st[image_path] = "corrupt"
    THEN [exc |-> "UnidentifiedImageError", caught |-> "none", thumb |-> <<>>, store |-> st]
    ELSE LET thumb_path == ReplaceFirst(image_path, "posts/", "thumbs/")
         IN  IF fault = "put"
             THEN [exc |-> "none", caught |-> "put", thumb |-> <<>>, store |-> st]
             ELSE [exc |-> "none", caught |-> "none", thumb |-> <<thumb_path>>,
                   store |-> (thumb_path :> Thumbnail(st[image_path])) @@ st]

\* resize_worker.py as committed does not compile (line 56 `seek{0}`, the
\* indentation at line 80, the undefined RABITMQ_USER at line 102); the two
\* functions below follow its statements in the order they are written.
\*
\* resize_image: None when the download fails; a decode failure is raised to
\* the caller; the thumbnail is put under the derived key, and None is
\* returned when that upload fails.
ResizeImage(st, image_path, fault) ==
    IF fault = "get" \/ image_path \notin DOMAIN st
    THEN [exc |-> "none", caught |-> "get", thumb |-> <<>>, store |-> st]
    ELSE IF st[image_path] = "corrupt"
    THEN [exc |-> "UnidentifiedImageError", caught |-> "none", thumb |-> <<>>, store |-> st]
    ELSE LET thumb_path == ReplaceFirst(image_path, "posts/", "thumbs/")
         IN  IF fault = "put"
             THEN [exc |-> "none", caught |-> "put", thumb |-> <<>>, store |-> st]
             ELSE [exc |-> "none", caught |-> "none", thumb |-> <<thumb_path>>,
                   store |-> (thumb_path :> Thumbnail(st[image_path])) @@ st]

\* callback of the resize worker: the whole handler for one delivery.
ResizeCallback(st, body, fault) ==
    LET d0 == [Idle EXCEPT !.worker = "resize", !.body = body] IN
    IF body.json = "invalid"
    THEN [store |-> st, last |-> BasicNack([d0 EXCEPT !.exc = "JSONDecodeError"], FALSE)]
    ELSE IF body.json # "object"
    THEN [store |-> st, last |-> BasicNack([d0 EXCEPT !.exc = "AttributeError"], FALSE)]
    ELSE IF Missing(body, "image_path")
    THEN [store |-> st, last |-> BasicAck(d0)]
    ELSE
    LET res == ResizeImage(st, body.image_path, fault) IN
    IF res.exc # "none"
    THEN [store |-> res.store, last |-> BasicNack([d0 EXCEPT !.exc = res.exc], FALSE)]
    ELSE [store |-> res.store,
          last |-> BasicAck([d0 EXCEPT !.thumb = res.thumb, !.caught = res.caught])]

JobKeys == {<<"posts/", "a">>, <<"thumbs/", "a">>, <<"dummy/", "a">>}

ResizeBodies ==
    {[json |-> "invalid"], [json |-> "array"], [json |-> "object"]}
    \cup {[json |-> "object", image_path |-> k] : k \in JobKeys}

\* The broker hands the resize worker one message; the handler runs to its
\* return.
ResizeDelivery(body, fault) ==
    /\ last = Idle
    /\ LET r == ResizeCallback(store, body, fault)
       IN  /\ store' = r.store
           /\ last' = r.last
    /\ UNCHANGED <<posts, comments>>
    /\ UNCHANGED conc
    /\ UNCHANGED cat
    /\ UNCHANGED loop

\* start_consuming goes back to waiting for the next message; the server
\* has sent the response of a request.
ConsumeNext ==
    /\ last # Idle
    /\ last' = Idle
    /\ UNCHANGED <<posts, comments, store>>
    /\ UNCHANGED conc
    /\ UNCHANGED cat
    /\ UNCHANGED loop

\* The sentiment worker processes started beside each other.
WorkerIds == {1, 2}

\* A worker blocked in start_consuming.  While it handles a delivery it holds
\* the post id update_comment_sentiment returned and the rating it computed;
\* the decision it sent for a delivery stays on it until it takes the next.
Waiting ==
    [pc |-> "wait", post |-> <<>>, value |-> <<>>, acks |-> 0, nacks |-> 0,
     requeue |-> FALSE, exc |-> "none"]

Init ==
    /\ posts = <<>>
    /\ comments = <<>>
    /\ store = <<>>
    /\ last = Idle
    /\ workers = [w \in WorkerIds |-> Waiting]
    /\ seen = [p \in PostIdsUsed |-> {Rating(comments, p)}]
    /\ queue = <<>>
    /\ decisions = <<>>
    /\ tags = <<>>
    /\ post_tags = {}
    /\ toe_ratings = <<>>

Next ==
    \/ \E path \in ImagePaths : CreatePost(path)
    \/ \E p \in PostIdsUsed : AddComment(p)
    \/ \E body \in SentimentBodies, fault \in SentimentFaults :
            SentimentDelivery(body, fault)
    \/ \E p \in PostIdsUsed : RecomputeCall(p)
    \/ \E name \in Names, kind \in {"image", "corrupt"} : UploadImage(name, kind)
    \/ \E body \in ResizeBodies, fault \in ResizeFaults : ResizeDelivery(body, fault)
    \/ \E p \in PostIdsUsed, text \in ApiTexts : ApiAddComment(p, text)
    \/ \E name \in Names, kind \in {"image", "corrupt", "text"}, fail \in BOOLEAN :
            ApiUploadImage(name, kind, fail)
    \/ ConsumeNext

Spec == Init /\ [][Next]_vars

\* ------------------------------------------- several sentiment workers at once

\* The well-formed jobs of the sentiment queue.
SentimentJobs ==
    {[json |-> "object", comment_id |-> c, text |-> t] : c \in JobCids, t \in Texts}

\* The comment state cs has been committed: the aggregator's value over it is
\* one a reader could have seen.
Remember(cs) == [p \in PostIdsUsed |-> seen[p] \cup {Rating(cs, p)}]

\* add_comment of the API while workers run: the post is looked up, and the
\* new row of add_comment_db is committed.
CommentAdded(p) ==
    /\ p \in DOMAIN posts
    /\ RowsCreated < MaxRows
    /\ comments' = Append(comments,
            [post_id |-> p, sentiment |-> <<>>, sentiment_score |-> <<>>])
    /\ seen' = Remember(comments')
    /\ UNCHANGED <<posts, store, last, workers>>
    /\ UNCHANGED loop
    /\ UNCHANGED cat

\* callback up to the commit of update_comment_sentiment: the broker hands
\* worker w a job, the text is classified, the comment row is loaded,
\* overwritten and committed.  When no row has the id the handler
\* acknowledges and returns.
WorkerUpdate(w, body) ==
    /\ workers[w].pc = "wait"
    /\ LET res == Classify(body.text)
           upd == UpdateCommentSentiment(comments, body.comment_id,
                                         res.label, res.score, FALSE)
       IN  IF upd.post_id = <<>>
           THEN /\ workers' = [workers EXCEPT ![w] = BasicAck(Waiting)]
                /\ UNCHANGED <<comments, seen>>
           ELSE /\ comments' = upd.comments
                /\ seen' = Remember(upd.comments)
                /\ workers' = [workers EXCEPT ![w] =
                        [Waiting EXCEPT !.pc = "updated", !.post = upd.post_id]]
    /\ UNCHANGED <<posts, store, last>>
    /\ UNCHANGED loop
    /\ UNCHANGED cat

\* recompute_post_rating up to the computed rating: the post is loaded (a
\* missing post ends the call, and the handler acknowledges), the post's
\* comments are read in one query and the rating is computed from them.
WorkerRead(w) ==
    /\ workers[w].pc = "updated"
    /\ LET p == workers[w].post[1]
       IN  IF p \notin DOMAIN posts
           THEN workers' = [workers EXCEPT ![w] =
                                BasicAck([@ EXCEPT !.pc = "wait"])]
           ELSE workers' = [workers EXCEPT ![w] =
                                [@ EXCEPT !.pc = "computed",
                                          !.value = <<Rating(comments, p)>>]]
    /\ UNCHANGED <<posts, comments, store, last, seen>>
    /\ UNCHANGED loop
    /\ UNCHANGED cat

\* recompute_post_rating from the assignment of the rating on: the value is
\* set on the post and committed, and the handler acknowledges; an assignment
\* that raises takes the handler to its except branch.
WorkerStore(w) ==
    /\ workers[w].pc = "computed"
    /\ LET p   == workers[w].post[1]
           set == SetAttr(PostColumns, posts[p], "rating", workers[w].value[1])
       IN  IF set.raised
           THEN /\ workers' = [workers EXCEPT ![w] =
                        BasicNack([@ EXCEPT !.pc = "wait", !.exc = "ValueError"], FALSE)]
                /\ UNCHANGED posts
           ELSE /\ workers' = [workers EXCEPT ![w] = BasicAck([@ EXCEPT !.pc = "wait"])]
                /\ posts' = [posts EXCEPT ![p] = set.row]
    /\ UNCHANGED <<comments, store, last, seen>>
    /\ UNCHANGED loop
    /\ UNCHANGED cat

NextWorkers ==
    \/ \E path \in ImagePaths : CreatePost(path)
    \/ \E p \in PostIdsUsed : CommentAdded(p)
    \/ \E w \in WorkerIds, body \in SentimentJobs : WorkerUpdate(w, body)
    \/ \E w \in WorkerIds : WorkerRead(w)
    \/ \E w \in WorkerIds : WorkerStore(w)

SpecWorkers == Init /\ [][NextWorkers]_vars

\* ------------------------------------------------------------ the consume loop

\* Messages waiting in the queues when the workers start.
MaxQueue == 2

\* A sample of what the queues hold: jobs that succeed, jobs that are dropped
\* and jobs that fail, for either worker.  fault is what goes wrong while the
\* message is handled.
LoopMessages ==
    {[worker |-> "sentiment", fault |-> f,
      body |-> [json |-> "object", comment_id |-> 1, text |-> "good"]] :
        f \in {"none", "classifier"}}
    \cup {[worker |-> "sentiment", fault |-> "none", body |-> b] :
            b \in {[json |-> "invalid"], [json |-> "object", comment_id |-> 1]}}
    \cup {[worker |-> "resize", fault |-> f,
           body |-> [json |-> "object", image_path |-> <<"posts/", "a">>]] :
            f \in {"none", "put"}}
    \cup {[worker |-> "resize", fault |-> "none", body |-> [json |-> "invalid"]]}

RECURSIVE Queues(_)
\* The queues of exactly n messages.
Queues(n) ==
    IF n = 0 THEN {<<>>}
    ELSE {Append(q, m) : q \in Queues(n - 1), m \in LoopMessages}

\* The workers start on stores left by earlier requests: at most one post,
\* one pending comment on post 1, one uploaded object.
InitLoop ==
    /\ posts \in {<<>>, <<[image_path |-> <<"posts/", "a">>,
                            text |-> <<"C", "a", "t">>,
                            user |-> <<"a", "n", "n">>]>>}
    /\ comments \in {<<>>, <<[post_id |-> 1, sentiment |-> <<>>,
                              sentiment_score |-> <<>>]>>}
    /\ store \in {<<>>, (<<"posts/", "a">> :> "image"), (<<"posts/", "a">> :> "corrupt")}
    /\ last = Idle
    /\ workers = [w \in WorkerIds |-> Waiting]
    /\ seen = [p \in PostIdsUsed |-> {Rating(comments, p)}]
    /\ queue \in UNION {Queues(n) : n \in 1..MaxQueue}
    /\ decisions = <<>>
    /\ tags = <<>>
    /\ post_tags = {}
    /\ toe_ratings = <<>>

\* A handler that lets the exception out after the nack: start_consuming
\* ends with it, and nothing is consumed any more.
LoopSentimentStops ==
    /\ Len(decisions) < Len(queue)
    /\ \A i \in DOMAIN decisions : decisions[i].nacks = 0
    /\ LET m == queue[Len(decisions) + 1]
       IN  /\ m.worker = "sentiment"
           /\ LET r == SentimentCallback(posts, comments, m.body, m.fault)
              IN  /\ posts' = r.posts
                  /\ comments' = r.comments
                  /\ decisions' = Append(decisions, r.last)
    /\ UNCHANGED <<store, last, queue>>
    /\ UNCHANGED conc
    /\ UNCHANGED cat

\* start_consuming of the sentiment worker: the next message of the queue is
\* handed to callback, which runs to its return; the loop then waits again.
LoopSentiment ==
    /\ Len(decisions) < Len(queue)
    /\ LET m == queue[Len(decisions) + 1]
       IN  /\ m.worker = "sentiment"
           /\ LET r == SentimentCallback(posts, comments, m.body, m.fault)
              IN  /\ posts' = r.posts
                  /\ comments' = r.comments
                  /\ decisions' = Append(decisions, r.last)
    /\ UNCHANGED <<store, last, queue>>
    /\ UNCHANGED conc
    /\ UNCHANGED cat

\* start_consuming of the resize worker, likewise.
LoopResize ==
    /\ Len(decisions) < Len(queue)
    /\ LET m == queue[Len(decisions) + 1]
       IN  /\ m.worker = "resize"
           /\ LET r == ResizeCallback(store, m.body, m.fault)
              IN  /\ store' = r.store
                  /\ decisions' = Append(decisions, r.last)
    /\ UNCHANGED <<posts, comments, last, queue>>
    /\ UNCHANGED conc
    /\ UNCHANGED cat

NextLoop ==
    \/ LoopSentiment
    \/ LoopResize

\* A worker that is consuming and has a message waiting handles it.
SpecLoop ==
    InitLoop /\ [][NextLoop]_vars /\ WF_vars(LoopSentiment) /\ WF_vars(LoopResize)

\* ------------------------------------------ db.py: posts, tags, toe ratings

MaxCatalog == 2

\* The rows the catalog calls have inserted into post and toe_rating.
CatalogRows == Len(posts) + Len(toe_ratings)

\* The set of the elements of a sequence.
Range(seq) == {seq[i] : i \in DOMAIN seq}

\* SQL lower() on the letters that occur in the texts below.
Lower(ch) ==
    CASE ch = "A" -> "a"
      [] ch = "C" -> "c"
      [] ch = "T" -> "t"
      [] OTHER -> ch

\* column.ilike("%q%"): q occurs in s, letter case ignored.  Texts are
\* sequences of letters.
ILike(s, q) ==
    \E i \in 0..(Len(s) - Len(q)) :
        \A k \in 1..Len(q) : Lower(s[i + k]) = Lower(q[k])

\* _ensure_tags: the rows whose name is asked for are selected; a Tag is made
\* for every element of tag_names that names no selected row, a repeated
\* element included; the commit of two new rows with one name violates the
\* unique index on Tag.name and raises IntegrityError, nothing being inserted.
\* The result is the ids of existing + to_create.
EnsureTags(tg, tag_names) ==
    IF tag_names = <<>> THEN [exc |-> "none", tags |-> tg, ids |-> <<>>]
    ELSE
    LET existing       == SelectSeq([i \in DOMAIN tg |-> i],
                                    LAMBDA i : tg[i] \in Range(tag_names))
        existing_names == {tg[existing[i]] : i \in DOMAIN existing}
        to_create      == SelectSeq(tag_names, LAMBDA n : n \notin existing_names)
    IN  IF \E i, j \in DOMAIN to_create : i # j /\ to_create[i] = to_create[j]
        THEN [exc |-> "IntegrityError", tags |-> tg, ids |-> <<>>]
        ELSE [exc |-> "none",
              tags |-> tg \o to_create,
              ids |-> existing \o [i \in DOMAIN to_create |-> Len(tg) + i]]

\* create_post_db: the post row with the next id and a link row for each tag
\* that _ensure_tags returned; an exception of _ensure_tags leaves the call
\* before the post is added.
CreatePostDb(ps, tg, lk, image_path, text, user, tag_names) ==
    LET ensured == EnsureTags(tg, tag_names) IN
    IF ensured.exc # "none"
    THEN [exc |-> ensured.exc, id |-> <<>>, posts |-> ps, tags |-> tg,
          post_tags |-> lk]
    ELSE [exc |-> "none",
          id |-> <<Len(ps) + 1>>,
          posts |-> Append(ps, [image_path |-> image_path, text |-> text,
                                user |-> user]),
          tags |-> ensured.tags,
          post_tags |-> lk \cup {<<Len(ps) + 1, ensured.ids[i]>> :
                                    i \in DOMAIN ensured.ids}]

\* The rows of the toe_rating table rt for the pair of post_id and user.
RowsOfPair(rt, post_id, user) ==
    {i \in DOMAIN rt : rt[i].post_id = post_id /\ rt[i].user = user}

\* add_or_update_rating_db that inserts a row whatever the table holds.
AddRatingDbInsertOnly(rt, post_id, user, value) ==
    [found |-> FALSE,
     toe_ratings |-> Append(rt, [post_id |-> post_id, user |-> user,
                                 value |-> value])]

\* add_or_update_rating_db: the first row of the pair gets the value when
\* there is one, otherwise a row is inserted.
AddOrUpdateRatingDb(rt, post_id, user, value) ==
    LET existing == RowsOfPair(rt, post_id, user)
    IN  IF existing # {}
        THEN LET first == CHOOSE i \in existing : \A j \in existing : i <= j
             IN  [found |-> TRUE,
                  toe_ratings |-> [rt EXCEPT ![first].value = value]]
        ELSE [found |-> FALSE,
              toe_ratings |-> Append(rt, [post_id |-> post_id, user |-> user,
                                          value |-> value])]

\* Post.ratings: the values of the rating rows of post p.
RatingsOf(rt, p) == SelectSeq(rt, LAMBDA r : r.post_id = p)

RECURSIVE SumValues(_)
SumValues(rows) ==
    IF rows = <<>> THEN 0 ELSE Head(rows).value + SumValues(Tail(rows))

\* _avg_rating_for_post as the fraction <<sum, count>>; <<>> is None.
AvgRatingForPost(rt, p) ==
    LET ratings == RatingsOf(rt, p)
    IN  IF ratings = <<>> THEN <<>> ELSE <<SumValues(ratings), Len(ratings)>>

\* avg >= bound and avg <= bound for a mean that is not None.
AvgAtLeast(avg, bound) == avg # <<>> /\ avg[1] >= bound * avg[2]

AvgAtMost(avg, bound) == avg # <<>> /\ avg[1] <= bound * avg[2]

\* Post p comes before post o in the list: created_at descending for
\* "newest", otherwise (mean or 0.0, created_at) descending.  Rows get their
\* created_at in the order of their ids.
ComesBefore(rt, order_by, p, o) ==
    LET a == AvgRatingForPost(rt, p)
        b == AvgRatingForPost(rt, o)
        ka == IF a = <<>> THEN <<0, 1>> ELSE a
        kb == IF b = <<>> THEN <<0, 1>> ELSE b
    IN  IF order_by = "newest" THEN p > o
        ELSE \/ ka[1] * kb[2] > kb[1] * ka[2]
             \/ ka[1] * kb[2] = kb[1] * ka[2] /\ p > o

\* The posts of the set ids as the list that posts.sort() leaves.
Sorted(rt, order_by, ids) ==
    [k \in 1..Cardinality(ids) |->
        CHOOSE p \in ids :
            Cardinality({o \in ids : ComesBefore(rt, order_by, o, p)}) = k - 1]

\* posts[offset : offset + limit]
Slice(seq, offset, limit) ==
    [k \in 1..(IF Len(seq) - offset < limit
               THEN (IF Len(seq) > offset THEN Len(seq) - offset ELSE 0)
               ELSE limit) |-> seq[offset + k]]

\* list_posts_db.  The statement starts as select(Post) and gets the search
\* condition when q is given; when tags are given the statement is replaced
\* by a new select(Post) joined with the link and tag tables, so that the
\* search condition is no part of it.  Then the rating bounds, the order, the
\* total and the page.
ListPostsDb(ps, tg, lk, rt, f) ==
    LET searched == IF f.q # <<>> /\ f.q[1] # <<>>
                    THEN {p \in DOMAIN ps : \/ ILike(ps[p].text, f.q[1])
                                            \/ ILike(ps[p].user, f.q[1])}
                    ELSE DOMAIN ps
        joined(p) == {t \in DOMAIN tg : <<p, t>> \in lk /\ tg[t] \in Range(f.tags)}
        stmt     == IF f.tags = <<>> THEN searched
                    ELSE IF f.match_all
                    THEN {p \in DOMAIN ps : /\ joined(p) # {}
                                            /\ Cardinality(joined(p)) = Len(f.tags)}
                    ELSE {p \in DOMAIN ps : joined(p) # {}}
        atleast  == IF f.min_rating = <<>> THEN stmt
                    ELSE {p \in stmt :
                            AvgAtLeast(AvgRatingForPost(rt, p), f.min_rating[1])}
        atmost   == IF f.max_rating = <<>> THEN atleast
                    ELSE {p \in atleast :
                            AvgAtMost(AvgRatingForPost(rt, p), f.max_rating[1])}
        posts_   == Sorted(rt, f.order_by, atmost)
    IN  [posts |-> Slice(posts_, f.offset, f.limit), total |-> Len(posts_)]

\* The texts and authors that posts are created with.
PostInputs ==
    { [text |-> <<"C", "a", "t">>, user |-> <<"a", "n", "n">>],
      [text |-> <<"d", "o", "g">>, user |-> <<"c", "a", "t">>],
      [text |-> <<"d", "o", "g">>, user |-> <<"a", "n", "n">>] }

\* The tag lists that posts are created with.
TagLists == {<<>>, <<"a">>, <<"a", "a">>, <<"a", "b">>}

\* The users who rate, and the values they give.
Raters == {<<"a", "n", "n">>, <<"b", "o", "b">>}

RatingValues == {1, 5}

\* The filters that posts are listed with: whole lists in either order, and
\* first pages of one post.
Filters ==
    [q : {<<>>, << <<"c", "a">> >>},
     tags : {<<>>, <<"a">>, <<"a", "b">>},
     match_all : BOOLEAN,
     min_rating : {<<>>},
     max_rating : {<<>>},
     limit : {20},
     offset : {0},
     order_by : {"newest", "relevance"}]
    \cup
    [q : {<<>>, << <<"c", "a">> >>},
     tags : {<<>>, <<"a">>},
     match_all : {FALSE},
     min_rating : {<<>>, <<4>>},
     max_rating : {<<>>},
     limit : {1},
     offset : {0},
     order_by : {"relevance"}]

\* A call of create_post_db.
CreatePostCall(in, tag_names) ==
    /\ CatalogRows < MaxCatalog
    /\ LET r == CreatePostDb(posts, tags, post_tags, <<"posts/", "a">>,
                             in.text, in.user, tag_names)
       IN  /\ posts' = r.posts
           /\ tags' = r.tags
           /\ post_tags' = r.post_tags
           /\ last' = [Idle EXCEPT !.worker = "create_post_db",
                                   !.body = [text |-> in.text, user |-> in.user,
                                             tags |-> tag_names],
                                   !.exc = r.exc,
                                   !.created = r.id]
    /\ UNCHANGED <<comments, store, toe_ratings>>
    /\ UNCHANGED conc
    /\ UNCHANGED loop

\* A call of add_or_update_rating_db.
RatingCall(post_id, user, value) ==
    /\ CatalogRows < MaxCatalog \/ RowsOfPair(toe_ratings, post_id, user) # {}
    /\ LET r == AddOrUpdateRatingDb(toe_ratings, post_id, user, value)
       IN  /\ toe_ratings' = r.toe_ratings
           /\ last' = [Idle EXCEPT !.worker = "add_or_update_rating_db",
                                   !.body = [post_id |-> post_id, user |-> user,
                                             value |-> value],
                                   !.found = r.found]
    /\ UNCHANGED <<posts, comments, store, tags, post_tags>>
    /\ UNCHANGED conc
    /\ UNCHANGED loop

\* A call of list_posts_db.
ListPostsCall(f) ==
    /\ last' = [Idle EXCEPT !.worker = "list_posts_db",
                            !.body = f,
                            !.result = <<ListPostsDb(posts, tags, post_tags,
                                                     toe_ratings, f)>>]
    /\ UNCHANGED <<posts, comments, store>>
    /\ UNCHANGED cat
    /\ UNCHANGED conc
    /\ UNCHANGED loop

NextCatalog ==
    \/ \E in \in PostInputs, tag_names \in TagLists : CreatePostCall(in, tag_names)
    \/ \E p \in PostIdsUsed, u \in Raters, v \in RatingValues : RatingCall(p, u, v)
    \/ \E f \in Filters : ListPostsCall(f)

\* The calls of db.py on one database, one after the other.
SpecCatalog == Init /\ [][NextCatalog]_vars

\* ----------------------------------------------------------------- properties

SentimentJob(d) ==
    /\ d.worker = "sentiment"
    /\ d.body.json = "object"
    /\ "comment_id" \in DOMAIN d.body
    /\ "text" \in DOMAIN d.body

\* The recomputation for post p ran to the point where the rating is assigned.
Recomputed(p) ==
    /\ last.recomputed
    /\ last.post = <<p>>
    /\ p \in DOMAIN posts
    /\ last.exc # "OperationalError:recompute"

\* The qualifying comments of post p, as the specification words them.
QualifyingIds(p) ==
    {i \in DOMAIN comments :
        /\ comments[i].post_id = p
        /\ comments[i].sentiment \in {<<"positive">>, <<"neutral">>, <<"negative">>}
        /\ comments[i].sentiment_score # <<>>}

Sign(label) ==
    CASE label = "positive" -> 1 [] label = "neutral" -> 0 [] label = "negative" -> -1

RECURSIVE SignedSum(_)
SignedSum(ids) ==
    IF ids = {} THEN 0
    ELSE LET i == CHOOSE j \in ids : TRUE
         IN  Sign(comments[i].sentiment[1]) * comments[i].sentiment_score[1]
                + SignedSum(ids \ {i})

\* r is round(clamp(((avg + 1) / 2) * 4 + 1, 1.0, 5.0), 2) for the mean avg of
\* the signed scores of post p's qualifying comments: the hundredth nearest to
\* the clamped value.
IsScaledMean(r, p) ==
    LET n == Cardinality(QualifyingIds(p))
        x == 300 * n + 2 * SignedSum(QualifyingIds(p))
        c == IF x < 100 * n THEN 100 * n ELSE IF x > 500 * n THEN 500 * n ELSE x
        e == r * n - c
    IN  2 * (IF e < 0 THEN -e ELSE e) <= n

\* No comment of post p is classified: it has none, or each has its sentiment
\* or its score unset.
Unclassified(p) ==
    \A i \in DOMAIN comments :
        comments[i].post_id = p =>
            comments[i].sentiment = <<>> \/ comments[i].sentiment_score = <<>>

\* C1: a sentiment job for an existing comment of an existing post, handled by
\* the single worker, ends acknowledged as success, and the post's stored
\* rating then equals the aggregator's value over the post's comments as they
\* are at that moment.
C1_AckedJobStoresAggregate ==
    (SentimentJob(last) /\ last.found /\ Recomputed(last.post[1])) =>
        /\ last.acks = 1
        /\ last.nacks = 0
        /\ StoredRating(last.post[1]) = <<Rating(comments, last.post[1])>>

\* C2: for a post with at least one qualifying comment, recompute_post_rating
\* stores round(clamp(((avg + 1) / 2) * 4 + 1, 1.0, 5.0), 2).
C2_StoresScaledMean ==
    \A p \in DOMAIN posts :
        (Recomputed(p) /\ QualifyingIds(p) # {}) =>
            /\ StoredRating(p) # <<>>
            /\ IsScaledMean(StoredRating(p)[1], p)

\* What recompute_post_rating computes, whether or not it can store it: the
\* scaled mean when a comment qualifies.
ComputedIsScaledMean ==
    \A p \in DOMAIN posts :
        (Recomputed(p) /\ QualifyingIds(p) # {}) =>
            /\ last.value # <<>>
            /\ last.value[1] \in 100..500
            /\ IsScaledMean(last.value[1], p)

\* C3: for a post none of whose comments is classified, the aggregator's
\* result is exactly 0.0.
C3_NoSignalIsZero ==
    \A p \in DOMAIN posts :
        (Recomputed(p) /\ Unclassified(p)) => last.value = <<0>>

\* C3's case: the aggregator ran for a post that has comments, all pending.
C3_Witness ==
    \E p \in DOMAIN posts :
        /\ Recomputed(p)
        /\ Unclassified(p)
        /\ \E i \in DOMAIN comments : comments[i].post_id = p
        /\ last.value = <<0>>

\* C4: in every reachable state every post's stored rating is within
\* [0.0, 5.0].
C4_StoredRatingInRange ==
    \A p \in DOMAIN posts :
        /\ StoredRating(p) # <<>>
        /\ StoredRating(p)[1] \in 0..500

\* C5: once the aggregator has run for a post with at least one qualifying
\* comment, the value it stored is within [1.0, 5.0], so never the sentinel 0.0.
C5_StoredSignalAtLeastOne ==
    \A p \in DOMAIN posts :
        (Recomputed(p) /\ QualifyingIds(p) # {}) =>
            /\ StoredRating(p) # <<>>
            /\ StoredRating(p)[1] \in 100..500

\* C6: a sentiment job for an existing comment that is processed (the
\* classifier returned, the update was committed) leaves that comment's
\* sentiment and score equal to what the classifier returned for the job's
\* text and every other row as it was; when the comment already held these
\* values, as after an earlier delivery of the same job, the comment table is
\* unchanged: same values, no row added.
C6_SentimentOverwritten ==
    [][ ( /\ last = Idle
          /\ SentimentJob(last')
          /\ last'.body.comment_id \in DOMAIN comments
          /\ last'.exc \notin {"ClassifierError", "OperationalError:update"} )
        => LET cid == last'.body.comment_id
               res == Classify(last'.body.text)
           IN  /\ last'.result = <<res>>
               /\ comments' = [comments EXCEPT ![cid].sentiment = <<res.label>>,
                                               ![cid].sentiment_score = <<res.score>>]
               /\ ( ( /\ comments[cid].sentiment = <<res.label>>
                      /\ comments[cid].sentiment_score = <<res.score>> )
                    => comments' = comments )
      ]_vars

\* C6's case: the job was delivered to a comment that already held the values
\* the classifier returns for its text, and holds them still.
C6_Redelivered ==
    /\ SentimentJob(last)
    /\ last.found
    /\ last.before = <<comments[last.body.comment_id]>>
    /\ comments[last.body.comment_id].sentiment
            = <<Classify(last.body.text).label>>
    /\ comments[last.body.comment_id].sentiment_score
            = <<Classify(last.body.text).score>>

C8_MalformedDropped ==
    [][ ( /\ last = Idle
          /\ last'.worker = "sentiment"
          /\ last'.body.json = "object"
          /\ ("comment_id" \notin DOMAIN last'.body \/ "text" \notin DOMAIN last'.body) )
        => /\ last'.acks = 1
           /\ last'.nacks = 0
           /\ ~last'.requeue
           /\ ~last'.classified
           /\ posts' = posts
           /\ comments' = comments
           /\ store' = store
      ]_vars

\* C8's case: a payload naming an existing comment but carrying no text.
C8_Witness ==
    /\ last.worker = "sentiment"
    /\ last.body.json = "object"
    /\ "comment_id" \in DOMAIN last.body
    /\ "text" \notin DOMAIN last.body
    /\ last.body.comment_id \in DOMAIN comments
    /\ last.acks = 1

\* C9: when classification, the comment update or the rating recomputation
\* raises while a sentiment job is processed, the message is nacked once with
\* requeue=False and is not acknowledged.
C9_FailureNacked ==
    ( /\ SentimentJob(last)
      /\ last.exc \in {"ClassifierError", "OperationalError:update",
                       "OperationalError:recompute", "ValueError"} )
    => /\ last.nacks = 1
       /\ ~last.requeue
       /\ last.acks = 0

\* C9's case: the store failed in the recomputation, after the comment update.
C9_Witness ==
    /\ SentimentJob(last)
    /\ last.exc = "OperationalError:recompute"
    /\ last.found
    /\ last.nacks = 1

Finished(w) ==
    /\ workers[w].pc = "wait"
    /\ workers[w].value # <<>>

\* What each competing worker computes is the aggregator's value over one
\* committed state of the post's comments, whether or not it can store it.
ComputedIsSnapshot ==
    \A w \in WorkerIds :
        workers[w].value # <<>> => workers[w].value[1] \in seen[workers[w].post[1]]

C12_QuiescentRatingCurrent ==
    (\A w \in WorkerIds : workers[w].pc = "wait") =>
        /\ \A w \in WorkerIds : workers[w].nacks = 0
        /\ \A p \in DOMAIN posts :
              (\E i \in DOMAIN comments :
                    comments[i].post_id = p /\ comments[i].sentiment # <<>>)
              => StoredRating(p) = <<Rating(comments, p)>>

\* C13: recompute_post_rating run twice for a post, with no comment change in
\* between, stores the same rating both times, and the second run changes
\* nothing else.
C13_RecomputeTwiceSame ==
    \A p \in DOMAIN posts :
        LET r1 == RecomputePostRating(posts, comments, p, FALSE)
            r2 == RecomputePostRating(r1.posts, comments, p, FALSE)
        IN  /\ r1.exc = "none"
            /\ r2.exc = "none"
            /\ "rating" \in DOMAIN r1.posts[p]
            /\ r2.posts = r1.posts

\* The jobs of the queue that name comments c1 and c2.
JobsFor(c1, c2) ==
    {<<j1, j2>> \in SentimentJobs \X SentimentJobs :
        j1.comment_id = c1 /\ j2.comment_id = c2}

\* The post table after the single worker handled job j1 and then job j2.
PostsAfter(j1, j2) ==
    LET a == SentimentCallback(posts, comments, j1, "none")
    IN  SentimentCallback(a.posts, a.comments, j2, "none").posts

\* C14: two sentiment jobs for two comments of one post, handled by a single
\* worker in either order, end with the same stored rating on the post.
C14_OrderInsensitive ==
    \A c1, c2 \in DOMAIN comments :
        ( /\ c1 # c2
          /\ comments[c1].post_id = comments[c2].post_id
          /\ comments[c1].post_id \in DOMAIN posts )
        => \A jj \in JobsFor(c1, c2) :
              LET p  == comments[c1].post_id
                  ab == PostsAfter(jj[1], jj[2])
                  ba == PostsAfter(jj[2], jj[1])
              IN  /\ "rating" \in DOMAIN ab[p]
                  /\ "rating" \in DOMAIN ba[p]
                  /\ ab[p].rating = ba[p].rating

\* Delivery i of the queue ended in a nack.
FailedAt(i) == i \in DOMAIN decisions /\ decisions[i].nacks = 1

C16_CommentJobPublished ==
    (last.worker = "add_comment" /\ last.created # <<>>) =>
        /\ last.created[1] \in DOMAIN comments
        /\ Len(last.published) = 1
        /\ last.published[1].message =
                [comment_id |-> last.created[1], text |-> last.body.text]

\* C17: a successful image upload through the API has published exactly one
\* resize job, carrying the stored object's key, and the object is stored by
\* then.
C17_ResizeJobPublished ==
    (last.worker = "upload_image" /\ last.created # <<>>) =>
        /\ last.created[1] \in DOMAIN store
        /\ Len(last.published) = 1
        /\ last.published[1].message = [image_path |-> last.created[1]]

\* A resize job: a JSON object that carries an image_path.
ResizeJob(d) ==
    /\ d.worker = "resize"
    /\ d.body.json = "object"
    /\ "image_path" \in DOMAIN d.body

\* Delivery i of the queue was a resize job for a key the store does not hold.
MissingObjectAt(i) ==
    /\ i \in DOMAIN decisions
    /\ ResizeJob(decisions[i])
    /\ decisions[i].body.image_path \notin DOMAIN store

C19_ResizeFailureNacked ==
    ( /\ ResizeJob(last)
      /\ (last.exc = "UnidentifiedImageError" \/ last.caught = "put") )
    => /\ last.nacks = 1
       /\ ~last.requeue
       /\ last.acks = 0

\* An exception that leaves resize_image, as the decoder's does, ends with
\* the message nacked once with requeue=False and not acknowledged.
ResizeRaisedIsNacked ==
    (ResizeJob(last) /\ last.exc # "none")
    => /\ last.nacks = 1
       /\ ~last.requeue
       /\ last.acks = 0

\* What may follow the "posts/" marker in a key.
KeyRests == {<<>>, <<"a">>, <<"a", "b">>, <<"posts/", "a">>, <<"a", "posts/">>}

Pending(i) ==
    /\ comments[i].sentiment = <<>>
    /\ comments[i].sentiment_score = <<>>

\* C21: a comment is created with both sentiment fields unset, and creating
\* it changes the value the aggregator computes for no post; so any number of
\* pending comments added to a post leaves the computed value as it was.
C21_PendingIgnored ==
    [][ Len(comments') = Len(comments) + 1
        => /\ comments'[Len(comments')].sentiment = <<>>
           /\ comments'[Len(comments')].sentiment_score = <<>>
           /\ \A p \in PostIdsUsed : Rating(comments', p) = Rating(comments, p)
      ]_vars

\* C21's case: the aggregator ran for a post that has a classified comment
\* and a pending one created after it, and computed what the classified
\* comment alone gives.
C21_Witness ==
    \E p \in DOMAIN posts :
        /\ Recomputed(p)
        /\ \E i, j \in DOMAIN comments :
              /\ i < j
              /\ comments[i].post_id = p
              /\ comments[j].post_id = p
              /\ i \in QualifyingIds(p)
              /\ Pending(j)
        /\ last.value # <<>>
        /\ last.value[1] >= 100
        /\ last.value = <<Rating(SelectSeq(comments, LAMBDA c : c.sentiment # <<>>), p)>>

\* The comment row carries a label that is none of positive, neutral,
\* negative.
Unrecognized(c) ==
    c.sentiment # <<>> /\ c.sentiment[1] \notin {"positive", "neutral", "negative"}

\* What the aggregator computes counts no comment with an unrecognized label:
\* it is what the comment table without those comments gives, and 0 for a
\* post whose comments qualify in no case.
UnrecognizedNotCounted ==
    \A p \in DOMAIN posts :
        Recomputed(p) =>
            /\ last.value
                  = <<Rating(SelectSeq(comments, LAMBDA c : ~Unrecognized(c)), p)>>
            /\ (QualifyingIds(p) = {} => last.value = <<0>>)

\* C22: a job whose classifier label is none of positive, neutral, negative
\* stores the label on the comment without error, so the job is acknowledged;
\* the comment counts neither in the sum nor in the count of the average, and
\* a post whose classified comments all carry such labels gets rating 0.0.
C22_UnrecognizedLabelTolerated ==
    ( /\ SentimentJob(last)
      /\ last.found
      /\ Unrecognized(comments[last.body.comment_id])
      /\ Recomputed(last.post[1]) )
    => /\ last.exc = "none"
       /\ last.acks = 1
       /\ last.value
             = <<Rating(SelectSeq(comments, LAMBDA c : ~Unrecognized(c)), last.post[1])>>
       /\ (QualifyingIds(last.post[1]) = {} => StoredRating(last.post[1]) = <<0>>)

\* A post row without its rating.
NonRating(row) == [c \in DOMAIN row \ {"rating"} |-> row[c]]

\* The rating the post table ps holds for post p: <<>> when the row has none.
RatingIn(ps, p) ==
    IF p \in DOMAIN ps /\ "rating" \in DOMAIN ps[p] THEN <<ps[p].rating>> ELSE <<>>

OrphanJob(d, ps, cs) ==
    /\ SentimentJob(d)
    /\ d.body.comment_id \in DOMAIN cs
    /\ cs[d.body.comment_id].post_id \notin DOMAIN ps

\* The comment of job d holds the classifier's label and score for d's text.
Persisted(d, cs) ==
    /\ cs[d.body.comment_id].sentiment = <<Classify(d.body.text).label>>
    /\ cs[d.body.comment_id].sentiment_score = <<Classify(d.body.text).score>>

C26_NackedNoEffect ==
    [][ (last = Idle /\ last'.worker = "sentiment" /\ last'.nacks > 0)
        => comments' = comments /\ posts' = posts
      ]_vars

\* What a nacked sentiment job does leave behind: every post is as it was;
\* every comment is as it was when the job failed before or in the comment
\* update, and when it failed in the recomputation the job's comment holds
\* the new label and score and every other comment is as it was.
NackedEffectUpToUpdate ==
    [][ (last = Idle /\ last'.worker = "sentiment" /\ last'.nacks > 0)
        => /\ posts' = posts
           /\ ~last'.recomputed => comments' = comments
           /\ last'.recomputed
                => /\ Persisted(last', comments')
                   /\ DOMAIN comments' = DOMAIN comments
                   /\ \A i \in DOMAIN comments :
                          i # last'.body.comment_id => comments'[i] = comments[i]
      ]_vars

\* C28: in every reachable state a comment's sentiment is unset exactly when
\* its sentiment_score is unset.
C28_SentimentFieldsTogether ==
    \A i \in DOMAIN comments :
        (comments[i].sentiment = <<>>) <=> (comments[i].sentiment_score = <<>>)

\* A job's update failed on a pending comment while another comment is
\* classified: both kinds of comment are present after a failure.
C28_Witness ==
    /\ SentimentJob(last)
    /\ last.exc = "OperationalError:update"
    /\ last.body.comment_id \in DOMAIN comments
    /\ comments[last.body.comment_id].sentiment = <<>>
    /\ \E i \in DOMAIN comments : comments[i].sentiment # <<>>

\* A resize of a key that holds the "posts/" marker leaves the object under
\* that key as it was.
MarkedSourceUnchanged ==
    [][ ( /\ last = Idle
          /\ ResizeJob(last')
          /\ last'.body.image_path \in DOMAIN store
          /\ FirstAt(last'.body.image_path, "posts/", 1) # 0 )
        => /\ last'.body.image_path \in DOMAIN store'
           /\ store'[last'.body.image_path] = store[last'.body.image_path]
      ]_vars

\* C27: the resize worker never writes to the key it read from: whatever the
\* image_path of a resize job, with or without the "posts/" marker, the
\* thumbnail goes under another key and the object under image_path is the
\* same afterwards.
C27_SourceUnchanged ==
    [][ ( /\ last = Idle
          /\ ResizeJob(last')
          /\ last'.body.image_path \in DOMAIN store )
        => /\ last'.thumb # <<last'.body.image_path>>
           /\ last'.body.image_path \in DOMAIN store'
           /\ store'[last'.body.image_path] = store[last'.body.image_path]
      ]_vars

\* C25: after any sequence of add_or_update_rating_db calls there is at most
\* one ToeRating row per pair of post_id and user, and its value is the value
\* of the most recent call for the pair: a call leaves exactly one row for
\* its pair, holding the call's value, and changes the rows of no other
\* pair; and no other call changes the table.
C25_OneRatingPerPair ==
    [][ /\ \A p \in PostIdsUsed, u \in Raters :
              Cardinality(RowsOfPair(toe_ratings', p, u)) <= 1
        /\ last'.worker = "add_or_update_rating_db"
              => LET b == last'.body
                 IN  /\ \E i \in DOMAIN toe_ratings' :
                            /\ RowsOfPair(toe_ratings', b.post_id, b.user) = {i}
                            /\ toe_ratings'[i].value = b.value
                     /\ \A i \in DOMAIN toe_ratings :
                            (toe_ratings[i].post_id # b.post_id
                                \/ toe_ratings[i].user # b.user)
                            => toe_ratings'[i] = toe_ratings[i]
        /\ last'.worker # "add_or_update_rating_db"
              => toe_ratings' = toe_ratings
      ]_vars

\* A second call for a pair has replaced the value 1 that was given first,
\* beside the row of another pair.
C25_Witness ==
    /\ last.worker = "add_or_update_rating_db"
    /\ last.found
    /\ last.body.value = 5
    /\ Len(toe_ratings) = 2
    /\ toe_ratings[1].value = 1
    /\ toe_ratings[2].value = 5
    /\ toe_ratings[2].post_id = last.body.post_id
    /\ toe_ratings[2].user = last.body.user

\* The names of the tags that post p is linked to.
TagNamesOf(p) == {tags[t] : t \in {t \in DOMAIN tags : <<p, t>> \in post_tags}}

\* Post p satisfies the search text q.
MatchesSearch(p, q) == ILike(posts[p].text, q) \/ ILike(posts[p].user, q)

\* Post p carries any, or with match_all all, of the requested tags.
MatchesTags(p, requested, match_all) ==
    IF match_all THEN Range(requested) \subseteq TagNamesOf(p)
    ELSE Range(requested) \cap TagNamesOf(p) # {}

\* With tags requested and no rating bound, what list_posts_db returns is the posts that satisfy
\* the tag filter, whether they satisfy the search text or not.
ListedByTagsAlone ==
    ( /\ last.worker = "list_posts_db"
      /\ last.body.tags # <<>>
      /\ last.body.min_rating = <<>> )
    => /\ last.result[1].total
            = Cardinality({p \in DOMAIN posts :
                    MatchesTags(p, last.body.tags, last.body.match_all)})
       /\ \A p \in Range(last.result[1].posts) :
              MatchesTags(p, last.body.tags, last.body.match_all)

\* C29: when list_posts_db is given both a search text q and a tag filter,
\* and no rating bound, every returned post satisfies both, the search text in its text or user
\* and the tags by any or all as match_all says, and total is the number of
\* the posts that satisfy both.
C29_SearchAndTagsBothApplied ==
    ( /\ last.worker = "list_posts_db"
      /\ last.body.q # <<>>
      /\ last.body.tags # <<>>
      /\ last.body.min_rating = <<>> )
    => LET f    == last.body
           both == {p \in DOMAIN posts : /\ MatchesSearch(p, f.q[1])
                                         /\ MatchesTags(p, f.tags, f.match_all)}
       IN  /\ Range(last.result[1].posts) \subseteq both
           /\ last.result[1].total = Cardinality(both)

\* No two rows of the tag table have one name, and every link row names a
\* post and a tag that exist.
TagTableSound ==
    /\ \A i, j \in DOMAIN tags : tags[i] = tags[j] => i = j
    /\ \A l \in post_tags : l[1] \in DOMAIN posts /\ l[2] \in DOMAIN tags

\* A create_post_db call whose list repeats no name that is new to the tag
\* table succeeds and links the post to the distinct names given.
CreatedWithoutNewRepeat ==
    ( /\ last.worker = "create_post_db"
      /\ last.exc = "none" )
    => /\ last.created = <<Len(posts)>>
       /\ TagNamesOf(Len(posts)) = Range(last.body.tags)

\* C30: create_post_db calls whose tag lists may repeat a name, within one
\* call or across calls, all succeed; afterwards there is exactly one Tag
\* row for each name given, and the new post is linked to exactly the
\* distinct names given.
C30_RepeatedTagNamesHandled ==
    last.worker = "create_post_db"
    => /\ last.exc = "none"
       /\ \A n \in Range(last.body.tags) :
              Cardinality({i \in DOMAIN tags : tags[i] = n}) = 1
       /\ last.created = <<Len(posts)>>
       /\ TagNamesOf(Len(posts)) = Range(last.body.tags)
====
